---- MODULE Spec2Model ----
(***************************************************************************)
(* plex_watch_history/__main__.py: the list and delete commands over the   *)
(* community GraphQL API.  The program is single-threaded; pc is its       *)
(* position.  The backend (account.query) is the environment: it holds the *)
(* server-side history and answers every request with one of the replies   *)
(* the code distinguishes (an exception, an empty reply, a well-formed     *)
(* reply, a reply of unexpected shape).                                    *)
(***************************************************************************)
EXTENDS Naturals, Sequences, FiniteSets

\* ---------------------------------------------------------------- bounds
MaxEntries == 3        \* entries initially stored on the server
MaxFirst == 2          \* largest page size `first` tried
MaxCallsPerEntry == 2  \* remove_watch_history calls followed per entry

\* ------------------------------------------------------ program constants
cq_retries == 3        \* community_query(retries=3)
rwh_retries == 3       \* remove_watch_history(retries=3)
delay == 5             \* community_query(delay=5)
PageDelay == 2         \* time.sleep(2) between pages
RetryDelay == 5        \* time.sleep(5) in remove_watch_history
Null == 0              \* after=None: the query from the start
all_ == TRUE           \* get_watch_history(all_=True), never overridden

VARIABLES
  mode,      \* args.func: "list" or "delete"
  server,    \* the history stored on the server, a sequence of entry ids
  initial,   \* the history stored when the program started
  first,     \* the page size of the backend's pages
  pc,        \* position of the program
  params,    \* the request of the running call: operationName, `after`, input.id
  attempt,   \* community_query: `attempt` of its for loop
  rattempt,  \* remove_watch_history: `attempt` of its for loop
  response,  \* the value community_query returned / account.query answered
  yielded,   \* entries the running get_watch_history has yielded so far
  gwhEnd,    \* how the last get_watch_history ended: "return" or "break"
  history,   \* delete_watch_history: list(get_watch_history(account))
  idx,       \* delete_watch_history: position of `entry` in `history`
  called,    \* ids given to remove_watch_history in this round, in order
  results,   \* what those calls returned, in order
  callsOf,   \* per entry id, the remove_watch_history calls made so far
  reqs,      \* requests sent by the running remove_watch_history call
  prevReq,   \* the last request the backend answered
  sinceReq,  \* seconds slept since that answer
  msg,       \* the last message printed by list/delete/get/remove
  item,      \* plex_format: the metadata item it is given
  formatted, \* plex_format: what the call gave, a string or an exception
  cli,       \* main: the flags given on the command line
  config,    \* main: CONFIG.get of the three auth keys
  args,      \* main: parser.parse_args(), the defaults applied
  account,   \* main: how the account was built
  exitCode   \* main: the exit status of parser.error, 0 while running

\* The variables of the list and delete runs, of plex_format, and of main.
runVars == <<mode, server, initial, first, params, attempt, rattempt,
             response, yielded, gwhEnd, history, idx, called, results,
             callsOf, reqs, prevReq, sinceReq, msg>>
formatVars == <<item, formatted>>
mainVars == <<cli, config, args, account, exitCode>>
vars == <<pc, runVars, formatVars, mainVars>>

Min(a, b) == IF a <= b THEN a ELSE b

Ids == 1..MaxEntries

\* -------------------------------------------------------------- backend
\* Cursor-paged history: a cursor is the position of the last node sent.
PageNodes(s, a, f) == SubSeq(s, a + 1, Min(a + f, Len(s)))
PageHasNext(s, a, f) == a + f < Len(s)
PageEndCursor(s, a, f) == IF Len(s) = 0 THEN Null ELSE Min(a + f, Len(s))

RECURSIVE Without(_, _)
Without(s, id) ==
  IF s = <<>> THEN <<>>
  ELSE IF Head(s) = id THEN Without(Tail(s), id)
  ELSE <<Head(s)>> \o Without(Tail(s), id)

\* Replies, as the code tells them apart.
NoResponse == [shape |-> "none", nodes |-> <<>>, hasNextPage |-> FALSE,
               endCursor |-> Null, removeActivity |-> FALSE]
PageResponse(s, a, f) ==
  [shape |-> "page", nodes |-> PageNodes(s, a, f),
   hasNextPage |-> PageHasNext(s, a, f),
   endCursor |-> PageEndCursor(s, a, f), removeActivity |-> FALSE]
RemoveResponse(b) == [NoResponse EXCEPT !.shape = "removeActivity",
                                        !.removeActivity = b]
Malformed(sh) == [NoResponse EXCEPT !.shape = sh]

\* Non-empty replies to GetWatchHistoryHub that lack a key the code reads.
FetchMalformed == {"no_data", "no_user", "no_watchHistory", "no_nodes",
                   "no_pageInfo"}
\* Non-empty replies to removeActivity without a usable data.removeActivity.
RemoveMalformed == {"no_data", "data_null", "no_removeActivity"}

\* params of get_watch_history (lines 130-139) and remove_watch_history (159-168).
FetchParams(a) ==
  [op |-> "GetWatchHistoryHub", after |-> a, id |-> 0, type |-> "none"]
RemoveParams(id) ==
  [op |-> "removeActivity", after |-> Null, id |-> id,
   type |-> "WATCH_HISTORY"]
NoParams == [op |-> "none", after |-> Null, id |-> 0, type |-> "none"]

Histories == {[i \in 1..n |-> i] : n \in 0..MaxEntries}

\* plex_format's values: a key that is missing, a Python None, or a value.
Absent == "absent"
None == "None"

\* A parent or grandparent: the key is missing, null, or a dict.
NoDict == [state |-> Absent, title |-> Absent, index |-> Absent]
NullDict == [state |-> None, title |-> Absent, index |-> Absent]
NoItem == [type |-> "none", title |-> Absent, year |-> Absent,
           index |-> Absent, parent |-> NoDict, grandparent |-> NoDict]
Pending == [state |-> "pending", raised |-> "no", text |-> <<>>]

NoArgs == [token |-> Absent, username |-> Absent, password |-> Absent]

\* The locals of the run before any call.
RunIdle ==
  /\ params = NoParams
  /\ attempt = 0
  /\ rattempt = 0
  /\ response = NoResponse
  /\ yielded = <<>>
  /\ gwhEnd = "none"
  /\ history = <<>>
  /\ idx = 0
  /\ called = <<>>
  /\ results = <<>>
  /\ callsOf = [i \in Ids |-> 0]
  /\ reqs = 0
  /\ prevReq = NoParams
  /\ sinceReq = 0
  /\ msg = "none"

FormatIdle == item = NoItem /\ formatted = Pending

MainIdle ==
  /\ cli = NoArgs
  /\ config = NoArgs
  /\ args = NoArgs
  /\ account = "none"
  /\ exitCode = 0

\* line 251: args.func(account) starts the list or the delete run.
Init ==
  /\ mode \in {"list", "delete"}
  /\ server \in Histories
  /\ initial = server
  /\ first \in 1..MaxFirst
  /\ pc = IF mode = "list" THEN "lwh" ELSE "dwh_loop"
  /\ RunIdle
  /\ FormatIdle
  /\ MainIdle

\* ------------------------------------------------------ community_query
\* Where community_query returns to: the caller that built params.
ReturnPc == IF params.op = "GetWatchHistoryHub" THEN "gwh_resp" ELSE "rwh_resp"

\* line 114-121: one more attempt, the request goes out.
CqSend ==
  /\ pc = "cq_try"
  /\ attempt < cq_retries
  /\ pc' = "cq_wait"
  /\ reqs' = reqs + 1
  /\ UNCHANGED <<mode, server, initial, first, params, attempt, rattempt,
                 response, yielded, gwhEnd, history, idx, called, results,
                 callsOf, prevReq, sinceReq, msg>>
  /\ UNCHANGED <<formatVars, mainVars>>

\* Mutant: the sleep follows every attempt, also the one that is returned.
CqReturnAfterSleep(r) ==
  /\ response' = r
  /\ pc' = ReturnPc
  /\ prevReq' = params
  /\ sinceReq' = delay
  /\ UNCHANGED <<mode, initial, first, params, attempt, rattempt, yielded,
                 gwhEnd, history, idx, called, results, callsOf, reqs, msg>>

\* line 122-123: a non-empty reply is returned at once.
CqReturn(r) ==
  /\ response' = r
  /\ pc' = ReturnPc
  /\ prevReq' = params
  /\ sinceReq' = 0
  /\ UNCHANGED <<mode, initial, first, params, attempt, rattempt, yielded,
                 gwhEnd, history, idx, called, results, callsOf, reqs, msg>>

\* line 122, 124-126: the attempt raised or gave an empty reply;
\* sleep(delay), next attempt.
CqFailed ==
  /\ attempt' = attempt + 1
  /\ pc' = "cq_try"
  /\ prevReq' = params
  /\ sinceReq' = delay
  /\ UNCHANGED <<mode, initial, first, params, rattempt, response, yielded,
                 gwhEnd, history, idx, called, results, callsOf, reqs, msg>>

\* account.query raises before the server acted.
QueryRaises ==
  /\ pc = "cq_wait"
  /\ CqFailed
  /\ UNCHANGED server
  /\ UNCHANGED <<formatVars, mainVars>>

\* account.query raises after the server removed the entry (the reply is lost).
QueryLost ==
  /\ pc = "cq_wait"
  /\ params.op = "removeActivity"
  /\ server' = Without(server, params.id)
  /\ CqFailed
  /\ UNCHANGED <<formatVars, mainVars>>

\* account.query returns an empty (falsy) response.
QueryEmpty ==
  /\ pc = "cq_wait"
  /\ CqFailed
  /\ UNCHANGED server
  /\ UNCHANGED <<formatVars, mainVars>>

\* A transient failure (an exception or an empty response) of a backend that
\* answers every request within community_query's attempts.
QueryTransient ==
  /\ attempt < cq_retries - 1
  /\ QueryRaises \/ QueryEmpty

\* GetWatchHistoryHub answered with the page after the cursor.
QueryPage ==
  /\ pc = "cq_wait"
  /\ params.op = "GetWatchHistoryHub"
  /\ CqReturn(PageResponse(server, params.after, first))
  /\ UNCHANGED server
  /\ UNCHANGED <<formatVars, mainVars>>

\* GetWatchHistoryHub answered with a non-empty reply of unexpected shape.
QueryFetchMalformed ==
  /\ pc = "cq_wait"
  /\ params.op = "GetWatchHistoryHub"
  /\ \E sh \in FetchMalformed : CqReturn(Malformed(sh))
  /\ UNCHANGED server
  /\ UNCHANGED <<formatVars, mainVars>>

\* removeActivity answered true: the entry is removed.
QueryRemoved ==
  /\ pc = "cq_wait"
  /\ params.op = "removeActivity"
  /\ server' = Without(server, params.id)
  /\ CqReturn(RemoveResponse(TRUE))
  /\ UNCHANGED <<formatVars, mainVars>>

\* removeActivity answered false: nothing removed (e.g. the id is not found).
QueryNotRemoved ==
  /\ pc = "cq_wait"
  /\ params.op = "removeActivity"
  /\ CqReturn(RemoveResponse(FALSE))
  /\ UNCHANGED server
  /\ UNCHANGED <<formatVars, mainVars>>

\* removeActivity answered with a non-empty reply of unexpected shape.
QueryRemoveMalformed ==
  /\ pc = "cq_wait"
  /\ params.op = "removeActivity"
  /\ \E sh \in RemoveMalformed : CqReturn(Malformed(sh))
  /\ UNCHANGED server
  /\ UNCHANGED <<formatVars, mainVars>>

\* Mutant: gives up after the first failed attempt (the page is not retried).
CqGiveUpNoRetry ==
  /\ pc = "cq_try"
  /\ attempt >= 1
  /\ response' = NoResponse
  /\ pc' = ReturnPc
  /\ UNCHANGED <<mode, server, initial, first, params, attempt, rattempt,
                 yielded, gwhEnd, history, idx, called, results, callsOf,
                 reqs, prevReq, sinceReq, msg>>
  /\ UNCHANGED <<formatVars, mainVars>>

\* line 114, 127: the attempts are used up, None is returned.
CqGiveUp ==
  /\ pc = "cq_try"
  /\ attempt >= cq_retries
  /\ response' = NoResponse
  /\ pc' = ReturnPc
  /\ UNCHANGED <<mode, server, initial, first, params, attempt, rattempt,
                 yielded, gwhEnd, history, idx, called, results, callsOf,
                 reqs, prevReq, sinceReq, msg>>
  /\ UNCHANGED <<formatVars, mainVars>>

\* ---------------------------------------------------- get_watch_history
\* Mutant: the cursor is kept in state shared by the calls, so a call resumes
\* where the previous one ended.
GwhCallResume ==
  /\ params' = FetchParams(Len(yielded))
  /\ yielded' = <<>>
  /\ gwhEnd' = "none"
  /\ pc' = "gwh_loop"

\* line 129-139: the call builds params with the default after=None.
GwhCall ==
  /\ params' = FetchParams(Null)
  /\ yielded' = <<>>
  /\ gwhEnd' = "none"
  /\ pc' = "gwh_loop"

\* line 142: response = community_query(account, params).
GwhQuery ==
  /\ pc = "gwh_loop"
  /\ attempt' = 0
  /\ pc' = "cq_try"
  /\ UNCHANGED <<mode, server, initial, first, params, rattempt, response,
                 yielded, gwhEnd, history, idx, called, results, callsOf,
                 reqs, prevReq, sinceReq, msg>>
  /\ UNCHANGED <<formatVars, mainVars>>

\* line 143-145: no response after the retries, the sequence ends.
GwhFailed ==
  /\ pc = "gwh_resp"
  /\ response.shape = "none"
  /\ msg' = "fetch_failed"
  /\ gwhEnd' = "break"
  /\ pc' = "gwh_end"
  /\ response' = NoResponse
  /\ attempt' = 0
  /\ UNCHANGED <<mode, server, initial, first, params, rattempt, yielded,
                 history, idx, called, results, callsOf, reqs, prevReq,
                 sinceReq>>
  /\ UNCHANGED <<formatVars, mainVars>>

\* line 146-149: a subscript of a missing key (KeyError) or of None
\* (TypeError) is not caught anywhere: the process ends with a traceback.
GwhRaises ==
  /\ pc = "gwh_resp"
  /\ response.shape \in FetchMalformed
  /\ msg' = "traceback"
  /\ pc' = "crashed"
  /\ UNCHANGED <<mode, server, initial, first, params, attempt, rattempt,
                 response, yielded, gwhEnd, history, idx, called, results,
                 callsOf, reqs, prevReq, sinceReq>>
  /\ UNCHANGED <<formatVars, mainVars>>

\* Mutant: the last page is tested for hasNextPage before it is yielded,
\* so its nodes are dropped.
GwhLastPageNoYield ==
  /\ pc = "gwh_resp"
  /\ response.shape = "page"
  /\ ~all_ \/ ~response.hasNextPage
  /\ gwhEnd' = "return"
  /\ pc' = "gwh_end"
  /\ response' = NoResponse
  /\ attempt' = 0
  /\ UNCHANGED <<mode, server, initial, first, params, rattempt, yielded,
                 history, idx, called, results, callsOf, reqs, prevReq,
                 sinceReq, msg>>
  /\ UNCHANGED <<formatVars, mainVars>>

\* Mutant: the loop goes on to query after a page without a next page.
GwhLastPageContinue ==
  /\ pc = "gwh_resp"
  /\ response.shape = "page"
  /\ ~all_ \/ ~response.hasNextPage
  /\ yielded' = yielded \o response.nodes
  /\ params' = [params EXCEPT !.after = response.endCursor]
  /\ sinceReq' = sinceReq + PageDelay
  /\ pc' = "gwh_loop"
  /\ response' = NoResponse
  /\ attempt' = 0
  /\ UNCHANGED <<mode, server, initial, first, rattempt, gwhEnd, history,
                 idx, called, results, callsOf, reqs, prevReq, msg>>
  /\ UNCHANGED <<formatVars, mainVars>>

\* line 146-152: the page's nodes are yielded and the sequence returns.
GwhLastPage ==
  /\ pc = "gwh_resp"
  /\ response.shape = "page"
  /\ ~all_ \/ ~response.hasNextPage
  /\ yielded' = yielded \o response.nodes
  /\ gwhEnd' = "return"
  /\ pc' = "gwh_end"
  /\ response' = NoResponse
  /\ attempt' = 0
  /\ UNCHANGED <<mode, server, initial, first, params, rattempt, history,
                 idx, called, results, callsOf, reqs, prevReq, sinceReq,
                 msg>>
  /\ UNCHANGED <<formatVars, mainVars>>

\* Mutant: the next page is queried without the sleep.
GwhNextPageNoSleep ==
  /\ pc = "gwh_resp"
  /\ response.shape = "page"
  /\ all_ /\ response.hasNextPage
  /\ yielded' = yielded \o response.nodes
  /\ params' = [params EXCEPT !.after = response.endCursor]
  /\ pc' = "gwh_loop"
  /\ response' = NoResponse
  /\ attempt' = 0
  /\ UNCHANGED <<mode, server, initial, first, rattempt, gwhEnd, history,
                 idx, called, results, callsOf, reqs, prevReq, sinceReq,
                 msg>>
  /\ UNCHANGED <<formatVars, mainVars>>

\* line 146-156: the page's nodes are yielded, after = endCursor, sleep(2).
GwhNextPage ==
  /\ pc = "gwh_resp"
  /\ response.shape = "page"
  /\ all_ /\ response.hasNextPage
  /\ yielded' = yielded \o response.nodes
  /\ params' = [params EXCEPT !.after = response.endCursor]
  /\ sinceReq' = sinceReq + PageDelay
  /\ pc' = "gwh_loop"
  /\ response' = NoResponse
  /\ attempt' = 0
  /\ UNCHANGED <<mode, server, initial, first, rattempt, gwhEnd, history,
                 idx, called, results, callsOf, reqs, prevReq, msg>>
  /\ UNCHANGED <<formatVars, mainVars>>

\* --------------------------------------------------- list_watch_history
\* line 188: for entry in get_watch_history(account).
ListStart ==
  /\ pc = "lwh"
  /\ GwhCall
  /\ UNCHANGED <<mode, server, initial, first, attempt, rattempt, response,
                 history, idx, called, results, callsOf, reqs, prevReq,
                 sinceReq, msg>>
  /\ UNCHANGED <<formatVars, mainVars>>

\* line 188-189: the sequence is exhausted, every entry was printed.
ListEnd ==
  /\ pc = "gwh_end"
  /\ mode = "list"
  /\ pc' = "done"
  /\ UNCHANGED <<mode, server, initial, first, params, attempt, rattempt,
                 response, yielded, gwhEnd, history, idx, called, results,
                 callsOf, reqs, prevReq, sinceReq, msg>>
  /\ UNCHANGED <<formatVars, mainVars>>

\* ------------------------------------------------- remove_watch_history
\* Mutant: a failed delete ends the for loop of the round.
RwhResultAbort(b) ==
  /\ results' = Append(results, b)
  /\ idx' = IF b THEN idx + 1 ELSE Len(history) + 1
  /\ pc' = "dwh_for"

\* line 176, 180 back in line 201-199: the call returned b, next entry.
RwhResult(b) ==
  /\ results' = Append(results, b)
  /\ idx' = idx + 1
  /\ pc' = "dwh_for"

\* Mutant: the for loop runs one attempt too many.
RwhAttemptOneMore ==
  /\ pc = "rwh_loop"
  /\ rattempt <= rwh_retries
  /\ attempt' = 0
  /\ pc' = "cq_try"
  /\ UNCHANGED <<mode, server, initial, first, params, rattempt, response,
                 yielded, gwhEnd, history, idx, called, results, callsOf,
                 reqs, prevReq, sinceReq, msg>>
  /\ UNCHANGED <<formatVars, mainVars>>

\* line 170-171: one more outer attempt runs community_query.
RwhAttempt ==
  /\ pc = "rwh_loop"
  /\ rattempt < rwh_retries
  /\ attempt' = 0
  /\ pc' = "cq_try"
  /\ UNCHANGED <<mode, server, initial, first, params, rattempt, response,
                 yielded, gwhEnd, history, idx, called, results, callsOf,
                 reqs, prevReq, sinceReq, msg>>
  /\ UNCHANGED <<formatVars, mainVars>>

\* line 172-174: community_query gave None; sleep(5), next attempt.
RwhNone ==
  /\ pc = "rwh_resp"
  /\ response.shape = "none"
  /\ msg' = "remove_retry"
  /\ sinceReq' = sinceReq + RetryDelay
  /\ rattempt' = rattempt + 1
  /\ pc' = "rwh_loop"
  /\ response' = NoResponse
  /\ attempt' = 0
  /\ UNCHANGED <<mode, server, initial, first, params, yielded, gwhEnd,
                 history, idx, called, results, callsOf, reqs, prevReq>>
  /\ UNCHANGED <<formatVars, mainVars>>

\* line 175: `"removeActivity" in response["data"]` with data null is a
\* TypeError, caught nowhere: the process ends with a traceback.
RwhRaises ==
  /\ pc = "rwh_resp"
  /\ response.shape = "data_null"
  /\ msg' = "traceback"
  /\ pc' = "crashed"
  /\ UNCHANGED <<mode, server, initial, first, params, attempt, rattempt,
                 response, yielded, gwhEnd, history, idx, called, results,
                 callsOf, reqs, prevReq, sinceReq>>
  /\ UNCHANGED <<formatVars, mainVars>>

\* Mutant: a reply removeActivity=false is retried like a transient error.
RwhReturnRetryFalse ==
  /\ pc = "rwh_resp"
  /\ response.shape = "removeActivity"
  /\ IF response.removeActivity
       THEN RwhResult(TRUE) /\ rattempt' = 0
       ELSE rattempt' = rattempt + 1 /\ pc' = "rwh_loop"
            /\ UNCHANGED <<results, idx>>
  /\ response' = NoResponse
  /\ attempt' = 0
  /\ UNCHANGED <<mode, server, initial, first, params, yielded, gwhEnd,
                 history, called, callsOf, reqs, prevReq, sinceReq, msg>>
  /\ UNCHANGED <<formatVars, mainVars>>

\* line 175-176: the reply has data.removeActivity, its value is returned.
RwhReturn ==
  /\ pc = "rwh_resp"
  /\ response.shape = "removeActivity"
  /\ RwhResult(response.removeActivity)
  /\ response' = NoResponse
  /\ attempt' = 0
  /\ rattempt' = 0
  /\ UNCHANGED <<mode, server, initial, first, params, yielded, gwhEnd,
                 history, called, callsOf, reqs, prevReq, sinceReq, msg>>
  /\ UNCHANGED <<formatVars, mainVars>>

\* line 177-178: a reply without data or without data.removeActivity;
\* the next attempt follows without a sleep.
RwhInvalid ==
  /\ pc = "rwh_resp"
  /\ response.shape \in {"no_data", "no_removeActivity"}
  /\ msg' = "invalid_response"
  /\ rattempt' = rattempt + 1
  /\ pc' = "rwh_loop"
  /\ response' = NoResponse
  /\ attempt' = 0
  /\ UNCHANGED <<mode, server, initial, first, params, yielded, gwhEnd,
                 history, idx, called, results, callsOf, reqs, prevReq,
                 sinceReq>>
  /\ UNCHANGED <<formatVars, mainVars>>

\* line 170, 179-180: the attempts are used up, False is returned.
RwhExhausted ==
  /\ pc = "rwh_loop"
  /\ rattempt >= rwh_retries
  /\ msg' = "remove_failed"
  /\ RwhResult(FALSE)
  /\ rattempt' = 0
  /\ UNCHANGED <<mode, server, initial, first, params, attempt, response,
                 yielded, gwhEnd, history, called, callsOf, reqs, prevReq,
                 sinceReq>>
  /\ UNCHANGED <<formatVars, mainVars>>

\* ------------------------------------------------- delete_watch_history
\* Mutant: the next round resumes after the entries of the last round.
DwhFetchResume ==
  /\ pc = "dwh_loop"
  /\ params' = FetchParams(Len(history))
  /\ yielded' = <<>>
  /\ gwhEnd' = "none"
  /\ pc' = "gwh_loop"
  /\ history' = <<>>
  /\ idx' = 0
  /\ called' = <<>>
  /\ results' = <<>>
  /\ reqs' = 0
  /\ UNCHANGED <<mode, server, initial, first, attempt, rattempt, response,
                 callsOf, prevReq, sinceReq, msg>>
  /\ UNCHANGED <<formatVars, mainVars>>

\* line 192-193: history = list(get_watch_history(account)).
DwhFetch ==
  /\ pc = "dwh_loop"
  /\ GwhCall
  /\ history' = <<>>
  /\ idx' = 0
  /\ called' = <<>>
  /\ results' = <<>>
  /\ reqs' = 0
  /\ UNCHANGED <<mode, server, initial, first, attempt, rattempt, response,
                 callsOf, prevReq, sinceReq, msg>>
  /\ UNCHANGED <<formatVars, mainVars>>

\* Mutant: the loop also ends on a fetch of a single entry.
DwhEmptyEarly ==
  /\ pc = "gwh_end"
  /\ mode = "delete"
  /\ Len(yielded) <= 1
  /\ history' = yielded
  /\ msg' = "no_more"
  /\ pc' = "done"
  /\ UNCHANGED <<mode, server, initial, first, params, attempt, rattempt,
                 response, yielded, gwhEnd, idx, called, results, callsOf,
                 reqs, prevReq, sinceReq>>
  /\ UNCHANGED <<formatVars, mainVars>>

\* line 193-196: the fetch gave no entry, the loop ends.
DwhEmpty ==
  /\ pc = "gwh_end"
  /\ mode = "delete"
  /\ yielded = <<>>
  /\ history' = yielded
  /\ msg' = "no_more"
  /\ pc' = "done"
  /\ UNCHANGED <<mode, server, initial, first, params, attempt, rattempt,
                 response, yielded, gwhEnd, idx, called, results, callsOf,
                 reqs, prevReq, sinceReq>>
  /\ UNCHANGED <<formatVars, mainVars>>

\* line 193-199: the fetch gave entries, the for loop starts.
DwhBegin ==
  /\ pc = "gwh_end"
  /\ mode = "delete"
  /\ yielded # <<>>
  /\ history' = yielded
  /\ idx' = 1
  /\ called' = <<>>
  /\ results' = <<>>
  /\ msg' = "deleting"
  /\ pc' = "dwh_for"
  /\ UNCHANGED <<mode, server, initial, first, params, attempt, rattempt,
                 response, yielded, gwhEnd, callsOf, reqs, prevReq, sinceReq>>
  /\ UNCHANGED <<formatVars, mainVars>>

\* Mutant: the mutation carries the entry's position, not its id.
DwhEntryWrongId ==
  /\ pc = "dwh_for"
  /\ idx <= Len(history)
  /\ callsOf[history[idx]] < MaxCallsPerEntry
  /\ msg' = "entry"
  /\ params' = RemoveParams(idx)
  /\ called' = Append(called, history[idx])
  /\ callsOf' = [callsOf EXCEPT ![history[idx]] = @ + 1]
  /\ reqs' = 0
  /\ rattempt' = 0
  /\ pc' = "rwh_loop"
  /\ UNCHANGED <<mode, server, initial, first, attempt, response, yielded,
                 gwhEnd, history, idx, results, prevReq, sinceReq>>
  /\ UNCHANGED <<formatVars, mainVars>>

\* line 199-201 and 158-168: the entry is printed and remove_watch_history
\* is called on it.
DwhEntry ==
  /\ pc = "dwh_for"
  /\ idx <= Len(history)
  /\ callsOf[history[idx]] < MaxCallsPerEntry
  /\ msg' = "entry"
  /\ params' = RemoveParams(history[idx])
  /\ called' = Append(called, history[idx])
  /\ callsOf' = [callsOf EXCEPT ![history[idx]] = @ + 1]
  /\ reqs' = 0
  /\ rattempt' = 0
  /\ pc' = "rwh_loop"
  /\ UNCHANGED <<mode, server, initial, first, attempt, response, yielded,
                 gwhEnd, history, idx, results, prevReq, sinceReq>>
  /\ UNCHANGED <<formatVars, mainVars>>

\* Mutant: the while loop ends after the first round of deletes.
DwhRoundEndBreak ==
  /\ pc = "dwh_for"
  /\ idx > Len(history)
  /\ pc' = "done"
  /\ UNCHANGED <<mode, server, initial, first, params, attempt, rattempt,
                 response, yielded, gwhEnd, history, idx, called, results,
                 callsOf, reqs, prevReq, sinceReq, msg>>
  /\ UNCHANGED <<formatVars, mainVars>>

\* line 199, 192: the for loop is exhausted, back to the while loop.
DwhRoundEnd ==
  /\ pc = "dwh_for"
  /\ idx > Len(history)
  /\ pc' = "dwh_loop"
  /\ UNCHANGED <<mode, server, initial, first, params, attempt, rattempt,
                 response, yielded, gwhEnd, history, idx, called, results,
                 callsOf, reqs, prevReq, sinceReq, msg>>
  /\ UNCHANGED <<formatVars, mainVars>>

\* ---------------------------------------------------------- plex_format
\* item["type"].lower() on the type names the model tries.
Lower(t) == IF t = "Episode" THEN "episode" ELSE t

\* d.get('title', 'Unknown') and d.get('index') on item.get(key, {}).
TitleOf(d) ==
  IF d.state = "dict" /\ d.title # Absent THEN d.title ELSE "Unknown"
IndexOf(d) ==
  IF d.state = "dict" /\ d.index # Absent THEN d.index ELSE None

\* The format spec :2d on a one-digit int.
Format2d(n) == " " \o n

Raised(e) == [state |-> "done", raised |-> e, text |-> <<>>]
Returned(parts) == [state |-> "done", raised |-> "no", text |-> parts]

\* line 96-110: the string, as the sequence of its parts, or the exception.
plex_format(it) ==
  IF Lower(it.type) = "season" THEN
    IF it.parent.state = None THEN Raised("AttributeError")
    ELSE IF it.index = Absent THEN Raised("KeyError")
    ELSE Returned(<<TitleOf(it.parent), ": Season ", it.index>>)
  ELSE IF Lower(it.type) = "episode" THEN
    IF it.grandparent.state = None \/ it.parent.state = None
      THEN Raised("AttributeError")
    ELSE IF it.index = Absent THEN Raised("KeyError")
    ELSE IF it.index = None THEN Raised("TypeError")
    ELSE Returned(<<TitleOf(it.grandparent), ": Season ",
                    IndexOf(it.parent), ": Episode ", Format2d(it.index),
                    " - ", it.title>>)
  ELSE IF it.year = Absent THEN Raised("KeyError")
  ELSE Returned(<<it.title, " (", it.year, ")">>)

Types == {"movie", "show", "season", "episode", "Episode"}
Dicts ==
  {NoDict, NullDict} \cup
  [state : {"dict"}, title : {Absent, "Lost", "Season 2"},
   index : {Absent, "2"}]
Items ==
  [type : Types, title : {"Pilot"}, year : {Absent, None, "2004"},
   index : {Absent, None, "7"}, parent : Dicts, grandparent : Dicts]

\* A call of plex_format on any metadata item.
InitFormat ==
  /\ mode = "none"
  /\ server = <<>>
  /\ initial = <<>>
  /\ first = 1
  /\ pc = "plex_format"
  /\ RunIdle
  /\ MainIdle
  /\ item \in Items
  /\ formatted = Pending

\* line 96-110: the call.
PlexFormat ==
  /\ pc = "plex_format"
  /\ formatted' = plex_format(item)
  /\ pc' = "formatted"
  /\ UNCHANGED <<runVars, item, mainVars>>

SpecFormat == InitFormat /\ [][PlexFormat]_vars

\* ----------------------------------------------------------------- main
\* bool(x) of a flag's value.
Truthy(v) == v \notin {Absent, None, ""}

\* line 203-218, 245: a flag that is not given takes CONFIG.get's value.
Default(given, conf) == IF given = Absent THEN conf ELSE given

ArgValues == [token : {Absent, "", "t"}, username : {Absent, "", "u"},
              password : {Absent, "", "p"}]
ConfigValues == [token : {None, "t"}, username : {None, "u"},
                 password : {None, "p"}]

\* The program is started with a subcommand and any flags.
InitMain ==
  /\ mode \in {"list", "delete"}
  /\ server = <<>>
  /\ initial = <<>>
  /\ first = 1
  /\ pc = "main"
  /\ RunIdle
  /\ FormatIdle
  /\ cli \in ArgValues
  /\ config \in ConfigValues
  /\ args = NoArgs
  /\ account = "none"
  /\ exitCode = 0

\* line 245: args = parser.parse_args().
MainParseArgs ==
  /\ pc = "main"
  /\ args' = [token |-> Default(cli.token, config.token),
              username |-> Default(cli.username, config.username),
              password |-> Default(cli.password, config.password)]
  /\ pc' = "main_check"
  /\ UNCHANGED <<runVars, formatVars, cli, config, account, exitCode>>

\* Mutant: the pair is only required when no token is given.
PairBrokenUnlessToken(a) ==
  Truthy(a.username) # Truthy(a.password) /\ ~Truthy(a.token)

\* line 247: bool(args.username) != bool(args.password).
PairBroken(a) == Truthy(a.username) # Truthy(a.password)

\* line 247-248: parser.error prints the message and exits with status 2.
MainError ==
  /\ pc = "main_check"
  /\ PairBroken(args)
  /\ exitCode' = 2
  /\ pc' = "exit"
  /\ UNCHANGED <<runVars, formatVars, cli, config, args, account>>

\* line 247, 250: the account from the token, else from getMyPlexAccount.
MainAccount ==
  /\ pc = "main_check"
  /\ ~PairBroken(args)
  /\ account' = IF Truthy(args.token) THEN "token" ELSE "getMyPlexAccount"
  /\ pc' = "func"
  /\ UNCHANGED <<runVars, formatVars, cli, config, args, exitCode>>

NextMain == MainParseArgs \/ MainError \/ MainAccount

SpecMain == InitMain /\ [][NextMain]_vars

\* -------------------------------------------------------- specifications
Next ==
  \/ ListStart \/ ListEnd
  \/ DwhFetch \/ DwhEmpty \/ DwhBegin \/ DwhEntry \/ DwhRoundEnd
  \/ GwhQuery \/ GwhFailed \/ GwhRaises \/ GwhLastPage \/ GwhNextPage
  \/ RwhAttempt \/ RwhNone \/ RwhRaises \/ RwhReturn \/ RwhInvalid
  \/ RwhExhausted
  \/ CqSend \/ CqGiveUp
  \/ QueryRaises \/ QueryLost \/ QueryEmpty \/ QueryPage
  \/ QueryFetchMalformed \/ QueryRemoved \/ QueryNotRemoved
  \/ QueryRemoveMalformed

Spec == Init /\ [][Next]_vars

\* The program against a backend on which every query succeeds.
NextOK ==
  \/ ListStart \/ ListEnd
  \/ DwhFetch \/ DwhEmpty \/ DwhBegin \/ DwhEntry \/ DwhRoundEnd
  \/ GwhQuery \/ GwhLastPage \/ GwhNextPage
  \/ RwhAttempt \/ RwhReturn
  \/ CqSend
  \/ QueryPage \/ QueryRemoved

SpecOK == Init /\ [][NextOK]_vars /\ WF_vars(NextOK)

\* The program against a backend with transient failures that recovers
\* before community_query gives up.
NextRetry == NextOK \/ QueryTransient

SpecRetry == Init /\ [][NextRetry]_vars /\ WF_vars(NextRetry)

\* ---------------------------------------------------------------- claims
IsPrefix(p, s) == Len(p) <= Len(s) /\ p = SubSeq(s, 1, Len(p))
NoDuplicates(s) == \A i, j \in 1..Len(s) : i # j => s[i] # s[j]

\* The node lists of all pages from cursor a on, concatenated in page order.
RECURSIVE PagesFrom(_, _, _)
PagesFrom(s, a, f) ==
  PageNodes(s, a, f) \o
    (IF PageHasNext(s, a, f) THEN PagesFrom(s, PageEndCursor(s, a, f), f)
     ELSE <<>>)

\* C1: on a backend on which every query succeeds, the entries a finished
\* get_watch_history has yielded are the concatenation of the node lists of
\* all pages, in page order and in-page order, none duplicated, none dropped.
C1_PagesConcatenated ==
  pc = "gwh_end" =>
    /\ yielded = PagesFrom(server, Null, first)
    /\ NoDuplicates(yielded)

\* C1 witness: page 1 = 2 nodes with a next page, page 2 = 1 node: 3 entries.
C1_Witness ==
  /\ pc = "gwh_end"
  /\ first = 2
  /\ yielded = <<1, 2, 3>>

\* C2: a failed page query is retried with the same cursor until `retries`
\* attempts are used up; the sequence then ends with the failure reported,
\* having yielded exactly the complete pages before the failing cursor.
C2_FailedPageEndsSequence ==
  /\ (pc \in {"cq_try", "cq_wait"} /\ params.op = "GetWatchHistoryHub"
      /\ attempt > 0) => prevReq = params /\ attempt <= cq_retries
  /\ (pc = "gwh_resp" /\ response.shape = "none") => attempt = cq_retries
  /\ (pc = "gwh_end" /\ gwhEnd = "break") =>
       /\ msg = "fetch_failed"
       /\ yielded = SubSeq(server, 1, params.after)
       /\ params.after < Len(server) \/ params.after = Null

\* C2 witness: page 1 was yielded whole, the query for page 2 failed 3 times.
C2_Witness ==
  /\ pc = "gwh_end"
  /\ gwhEnd = "break"
  /\ first = 2
  /\ Len(server) = 3
  /\ yielded = <<1, 2>>

C4_RemoveNeverRaises ==
  /\ ~(pc = "crashed" /\ params.op = "removeActivity")
  /\ (pc = "dwh_for" /\ msg = "remove_failed") =>
       results # <<>> /\ results[Len(results)] = FALSE

\* C5: against a backend that answers every query, at once or after retries
\* induced by transient failures, delete_watch_history terminates, having
\* called remove_watch_history exactly once per entry of the initial history
\* (N calls for N entries) and emptied the server.
C5_OneDeletePerEntry ==
  /\ <>(pc = "done")
  /\ [](pc = "done" /\ mode = "delete" =>
          /\ \A i \in Ids : callsOf[i] = IF i <= Len(initial) THEN 1 ELSE 0
          /\ server = <<>>)

\* C5 witness: 3 entries on 2 pages, 3 calls, the run has ended.
C5_Witness ==
  /\ pc = "done"
  /\ mode = "delete"
  /\ first = 2
  /\ Len(initial) = 3
  /\ \A i \in 1..3 : callsOf[i] = 1

\* C6 as stated: a round fetches only the current first page, so every
\* watch-history query of delete_watch_history is a query from the start.
C6_OnlyFirstPageFetched ==
  (mode = "delete" /\ pc = "cq_wait" /\ params.op = "GetWatchHistoryHub")
    => params.after = Null

\* C6 amended: every round starts with a query from the start; a query with
\* a cursor continues the same round's fetch (the cursor is the end of what
\* this round has yielded, of the current server history), and no delete was
\* sent between the round's first query and it.
C6_NoCursorAcrossDeletion ==
  (mode = "delete" /\ pc = "cq_wait" /\ params.op = "GetWatchHistoryHub") =>
    /\ yielded = <<>> => params.after = Null
    /\ params.after # Null =>
         /\ prevReq.op = "GetWatchHistoryHub"
         /\ called = <<>>
         /\ params.after = Len(yielded)
         /\ yielded = SubSeq(server, 1, params.after)

\* C6 witness: after a delete, the next round queries from the start.
C6_Witness ==
  /\ mode = "delete"
  /\ pc = "cq_wait"
  /\ params = FetchParams(Null)
  /\ prevReq.op = "removeActivity"
  /\ Len(server) < Len(initial)
  /\ server # <<>>

\* C7: delete_watch_history ends only from a fetch that gave no entry, and
\* then at once and for good; a fetch that gave entries is followed by the
\* deletes and then by another fetch from the start.
C7_StopsOnEmptyFetchOnly ==
  [][mode = "delete" =>
       /\ (pc' = "done" /\ pc # "done") => pc = "gwh_end" /\ yielded = <<>>
       /\ (pc = "gwh_end" /\ yielded = <<>>) => pc' = "done"
       /\ (pc = "gwh_end" /\ yielded # <<>>) =>
            pc' = "dwh_for" /\ history' = yielded
       /\ (pc = "dwh_for" /\ idx > Len(history)) => pc' = "dwh_loop"
       /\ pc = "dwh_loop" => pc' = "gwh_loop" /\ params' = FetchParams(Null)
       /\ pc # "done"]_vars

\* C7 witness: a round that gave entries has ended and the next fetch runs.
C7_Witness ==
  /\ mode = "delete"
  /\ pc = "gwh_loop"
  /\ params = FetchParams(Null)
  /\ callsOf[1] = 1
  /\ callsOf[2] = 1

\* C8: between two delete mutations for different entries the program
\* sleeps.
C8_DelayBetweenDeletes ==
  (pc = "cq_wait" /\ params.op = "removeActivity"
   /\ prevReq.op = "removeActivity" /\ prevReq.id # params.id)
    => sinceReq > 0

\* C9: no reply of unexpected shape ends the process with an uncaught
\* exception.
C9_MalformedNeverCrashes == pc # "crashed"

\* C10: a delete attempt that raised or came back empty is followed by a
\* sleep of `delay` and the same mutation, at most rwh_retries x cq_retries
\* requests per call; a reply removeActivity=false makes the call return
\* False at once, with no further request.
C10_RetryTransientNotFalse ==
  /\ [](params.op = "removeActivity" =>
          /\ (pc \in {"cq_try", "cq_wait"} /\ attempt > 0) =>
               prevReq = params /\ sinceReq >= delay
          /\ attempt <= cq_retries /\ rattempt <= rwh_retries
          /\ reqs <= rwh_retries * cq_retries)
  /\ [][(pc = "rwh_resp" /\ response.shape = "removeActivity"
         /\ ~response.removeActivity) =>
          /\ pc' = "dwh_for"
          /\ results' = Append(results, FALSE)
          /\ reqs' = reqs]_vars

\* C10 witness: the first request raised after the server had removed the
\* entry, the retry was answered false, and the call returned False.
C10_Witness ==
  /\ pc = "dwh_for"
  /\ called = <<1>>
  /\ results = <<FALSE>>
  /\ reqs = 2
  /\ msg = "entry"
  /\ server = <<2>>

InQuery == pc \in {"cq_try", "cq_wait"}
IsFetch == params.op = "GetWatchHistoryHub"
IsRemove == params.op = "removeActivity"

\* C11: get_watch_history ends at the first page without a next page and
\* queries nothing after it; it goes on to another query only from a page
\* with hasNextPage, and that query carries the page's endCursor as `after`.
C11_EndsAtLastPage ==
  /\ [][/\ (pc = "gwh_resp" /\ response.shape = "page"
            /\ ~response.hasNextPage) =>
              pc' = "gwh_end" /\ gwhEnd' = "return" /\ params' = params
        /\ (pc = "gwh_resp" /\ pc' = "gwh_loop") =>
              /\ response.shape = "page"
              /\ response.hasNextPage
              /\ params' = FetchParams(response.endCursor)
        /\ pc = "gwh_end" => pc' \in {"done", "dwh_for"}]_vars
  /\ [](InQuery /\ IsFetch /\ params.after # Null =>
          prevReq.op = "GetWatchHistoryHub" /\ params.after <= Len(server))

\* C11 witness: a list run of 3 entries ended after the page at cursor 2.
C11_Witness ==
  /\ mode = "list"
  /\ pc = "done"
  /\ gwhEnd = "return"
  /\ params = FetchParams(2)
  /\ yielded = <<1, 2, 3>>

\* C12: every call of get_watch_history starts with after=null: the call
\* step builds fresh params, and a call that has yielded nothing yet queries
\* from the start, whatever cursor an earlier call reached.
C12_EveryCallFromStart ==
  /\ [][(pc \in {"lwh", "dwh_loop"} /\ pc' # pc) =>
          pc' = "gwh_loop" /\ params' = FetchParams(Null)
          /\ yielded' = <<>>]_vars
  /\ []((pc \in {"gwh_loop", "cq_try", "cq_wait"} /\ IsFetch
         /\ yielded = <<>>) => params.after = Null)

\* C12 witness: the round before fetched 3 entries over 2 pages (its cursor
\* reached 2); the next round queries from the start.
C12_Witness ==
  /\ mode = "delete"
  /\ pc = "cq_wait"
  /\ first = 2
  /\ callsOf[3] = 1
  /\ yielded = <<>>
  /\ params = FetchParams(Null)

\* C13: a query for another page than the one queried before it is sent
\* only after the inter-page sleep.
C13_DelayBetweenPages ==
  (pc = "cq_wait" /\ IsFetch /\ prevReq.op = "GetWatchHistoryHub"
   /\ prevReq.after # params.after) => sinceReq >= PageDelay

\* C13 witness: the query for the page after cursor 2 follows the query
\* from the start by the 2 s sleep.
C13_Witness ==
  /\ pc = "cq_wait"
  /\ params = FetchParams(2)
  /\ prevReq = FetchParams(Null)
  /\ sinceReq = PageDelay

\* C16: community_query never raises, sends a request only while fewer than
\* `retries` attempts have failed, returns a non-empty reply at once without
\* a sleep, sleeps `delay` after every failed attempt, the last included, and
\* returns None exactly when `retries` attempts have failed.
C16_CommunityQueryContract ==
  /\ [][/\ InQuery => pc' # "crashed"
        /\ (pc = "cq_try" /\ pc' = "cq_wait") => attempt < cq_retries
        /\ (pc = "cq_wait" /\ pc' = "cq_try") =>
              attempt' = attempt + 1 /\ sinceReq' = delay
        /\ (pc = "cq_wait" /\ pc' # "cq_try") =>
              /\ pc' = ReturnPc
              /\ response'.shape # "none"
              /\ attempt' = attempt
              /\ sinceReq' = 0
        /\ (pc = "cq_try" /\ pc' # "cq_wait") =>
              /\ pc' = ReturnPc
              /\ response' = NoResponse
              /\ attempt = cq_retries
              /\ sinceReq = delay]_vars
  /\ [](/\ attempt <= cq_retries
        /\ pc \in {"gwh_resp", "rwh_resp"} =>
             (response.shape = "none" <=> attempt = cq_retries))

\* C16 witness: two attempts failed, the third reply is returned.
C16_Witness ==
  /\ pc = "gwh_resp"
  /\ response.shape = "page"
  /\ attempt = 2
  /\ sinceReq = 0

\* C17: one remove_watch_history call sends at most rwh_retries x cq_retries
\* requests, at most cq_retries per outer attempt; it returns the value of
\* data.removeActivity as soon as a reply has it, and False once the outer
\* attempts are used up.
C17_RequestsPerRemove ==
  /\ [](IsRemove =>
          /\ reqs <= rwh_retries * cq_retries
          /\ (pc \in {"rwh_loop", "rwh_resp"} \/ InQuery) =>
               /\ rattempt <= rwh_retries
               /\ reqs <= rattempt * cq_retries + cq_retries)
  /\ [][/\ (pc = "rwh_resp" /\ response.shape = "removeActivity") =>
              /\ pc' = "dwh_for"
              /\ results' = Append(results, response.removeActivity)
              /\ reqs' = reqs
        /\ (pc = "rwh_loop" /\ pc' = "dwh_for") =>
              /\ rattempt = rwh_retries
              /\ results' = Append(results, FALSE)]_vars

\* C17 witness: a call returned False after 9 requests.
C17_Witness ==
  /\ pc = "dwh_for"
  /\ msg = "remove_failed"
  /\ reqs = 9
  /\ results = <<FALSE>>

\* C18: when delete_watch_history has ended, no entry is left on the server.
C18_EndsWithEmptyServer ==
  (mode = "delete" /\ pc = "done") => server = <<>>

\* C19: a list run sends no removeActivity mutation and leaves the server's
\* history as it was; every mutation of a delete run carries the id of the
\* entry of this round's fetch that the for loop is at, and the type
\* WATCH_HISTORY.
C19_ListReadsDeleteTargets ==
  /\ mode = "list" =>
       /\ ~IsRemove
       /\ prevReq.op # "removeActivity"
       /\ server = initial
  /\ (pc = "cq_wait" /\ IsRemove) =>
       /\ mode = "delete"
       /\ idx \in 1..Len(history)
       /\ params.id = history[idx]
       /\ params.type = "WATCH_HISTORY"
       /\ IsPrefix(history, yielded)

\* C19 witness: in a later round the mutation for entry 3, fetched as the
\* second entry of the round, is out.
C19_Witness ==
  /\ pc = "cq_wait"
  /\ IsRemove
  /\ history = <<2, 3>>
  /\ idx = 2
  /\ params.id = 3

\* C14: plex_format returns a non-empty string for every item, whatever of
\* year, index, parent and grandparent is missing or null, and for an
\* episode the string holds the parent's and the grandparent's title.
C14_FormatTotal ==
  formatted.state = "done" =>
    /\ formatted.raised = "no"
    /\ formatted.text # <<>>
    /\ (Lower(item.type) = "episode" /\ item.parent.title # Absent
        /\ item.grandparent.title # Absent) =>
         /\ \E i \in 1..Len(formatted.text) :
              formatted.text[i] = item.parent.title
         /\ \E i \in 1..Len(formatted.text) :
              formatted.text[i] = item.grandparent.title

\* C15: when exactly one of username and password is set after the defaults,
\* main exits with status 2 and builds no account; otherwise it builds the
\* account, from the token when a token is set.
C15_PairRequired ==
  pc \in {"exit", "func"} =>
    /\ (Truthy(args.username) # Truthy(args.password)) <=> pc = "exit"
    /\ pc = "exit" =>
         exitCode = 2 /\ account = "none" /\ prevReq = NoParams
    /\ pc = "func" =>
         /\ exitCode = 0
         /\ account = IF Truthy(args.token) THEN "token"
                      ELSE "getMyPlexAccount"

\* C15 witness: --username without a password, with a token from the config:
\* the argument error.
C15_Witness ==
  /\ pc = "exit"
  /\ cli.username = "u"
  /\ args.password = None
  /\ args.token = "t"
  /\ exitCode = 2
====
